---- MODULE Spec2Model ----
(***************************************************************************)
(* Model of cli/npm/resolvers/common.rs: the parallel cache pre-fetch      *)
(* (cache_packages), the registry read-permission check                    *)
(* (ensure_registry_read_permission) and the @types name mapping           *)
(* (types_package_name).  The three units share no state; each has its own *)
(* specification over its own variables, the others' variables staying at  *)
(* their idle values.                                                      *)
(***************************************************************************)
EXTENDS Integers, Sequences, FiniteSets, TLC

VARIABLES
  \* ---- cache_packages ----
  sync_download,  \* should_sync_download(), read once per call (line 68)
  oracle,         \* the cache: for each package id, the outcomes ensure_package may have
  input,          \* the list as the caller passed it
  packages,       \* the local `packages` (sorted at line 72 under the serial flag)
  pc,             \* position of the cache_packages future
  idx,            \* position of the `for package in packages` loop (1-based)
  handles,        \* the local `handles`: positions of the pushed JoinHandles, in order
  task,           \* per position of `packages`: state of the spawned task
  calls,          \* ensure_package invocations so far, (name, version), in order
  firstFail,      \* position of the task that failed first in time (0: none yet)
  result,         \* what cache_packages returned
  prev,           \* the caller's record of its previous call (NoCall: none)
  \* ---- ensure_registry_read_permission ----
  fs, cwd, registry_path, path, perm_result,
  \* ---- types_package_name ----
  package_name, types_result

cacheVars == <<sync_download, oracle, input, packages, pc, idx, handles, task,
               calls, firstFail, result, prev>>
permVars  == <<fs, cwd, registry_path, path, perm_result>>
typesVars == <<package_name, types_result>>
vars      == <<cacheVars, permVars, typesVars>>

(***************************************************************************)
(* Bounds                                                                  *)
(***************************************************************************)
MaxLen == 3    \* longest input list of cache_packages

None == "none"

Min(S) == CHOOSE x \in S : \A y \in S : x <= y

SeqsUpTo(S, n) == UNION {[1..k -> S] : k \in 0..n}

(***************************************************************************)
(* cache_packages: data                                                    *)
(***************************************************************************)
\* NpmPackageId values of the model: name plus exact version.
PackageIds ==
  {[name |-> "a", version |-> 1], [name |-> "a", version |-> 2],
   [name |-> "b", version |-> 1]}

\* NpmResolutionPackage values: the id and the copy_index (the distribution
\* descriptor is passed through to ensure_package untouched and is left out).
ResolutionPackages ==
  {[id |-> i, copy_index |-> 0] : i \in PackageIds}
    \cup {[id |-> [name |-> "a", version |-> 1], copy_index |-> 1]}

LegalPackages == {p \in ResolutionPackages : p.copy_index = 0}

\* Result<Result<(), AnyError>, JoinError> of an awaited JoinHandle:
\*   "ok" = Ok(Ok(())), "err" = Ok(Err(e)), "panic"/"cancelled" = Err(JoinError).
Outcomes == {"ok", "err", "panic", "cancelled"}
Failures == Outcomes \ {"ok"}

NameRank(n) == IF n = "a" THEN 1 ELSE 2

\* Ord of NpmPackageId: by name, then by version.
IdLess(x, y) ==
  \/ NameRank(x.name) < NameRank(y.name)
  \/ x.name = y.name /\ x.version < y.version

\* a.id.cmp(&b.id) == Greater
CmpGreater(a, b) == IdLess(b.id, a.id)

\* Insert e (which followed all of s in the unsorted list) into the sorted s:
\* after every element that does not compare greater, so equal ids keep
\* their relative order (sort_by is stable).
RECURSIVE InsertStable(_, _)
InsertStable(s, e) ==
  IF s = <<>> THEN <<e>>
  ELSE IF CmpGreater(s[Len(s)], e)
       THEN Append(InsertStable(SubSeq(s, 1, Len(s) - 1), e), s[Len(s)])
       ELSE Append(s, e)

RECURSIVE SortById(_)
SortById(s) ==
  IF s = <<>> THEN <<>>
  ELSE InsertStable(SortById(SubSeq(s, 1, Len(s) - 1)), s[Len(s)])

\* Mutant: the sort is left out.
SortPackagesUnsorted(pkgs, sync) == pkgs

\* Lines 69-73: `if sync_download { packages.sort_by(|a, b| a.id.cmp(&b.id)) }`.
SortPackages(pkgs, sync) == IF sync THEN SortById(pkgs) ELSE pkgs

\* Mutants of the branch at line 89: every handle pushed / every handle awaited.
AwaitsInLoopNever(sync) == FALSE
AwaitsInLoopAlways(sync) == TRUE

\* Line 89: `if sync_download { handle.await??; } else { handles.push(handle); }`.
AwaitsInLoop(sync) == sync

Finished(t) == t \in Outcomes
InFlight(t) == t \in {"spawned", "running"}

OkResult == [kind |-> "Ok"]
\* The error `??` returns for the task at position k of `packages`.
ErrResult(pkgs, tasks, k) ==
  [kind |-> "Err", pos |-> k, id |-> pkgs[k].id, cause |-> tasks[k]]

\* Mutant: `.await?` with a single `?`: a JoinError is surfaced, the inner
\* Result of ensure_package is dropped.
TryResultOuterOnly(pkgs, tasks, k) ==
  IF tasks[k] \in {"panic", "cancelled"} THEN ErrResult(pkgs, tasks, k) ELSE OkResult

\* Mutant: the JoinError is swallowed (`handle.await.unwrap_or(Ok(()))?`): only
\* the Result of ensure_package is surfaced.
TryResultInnerOnly(pkgs, tasks, k) ==
  IF tasks[k] = "err" THEN ErrResult(pkgs, tasks, k) ELSE OkResult

\* `result??` (lines 90 and 98) on the finished task at position k: Ok to go
\* on, Err to return.
TryResult(pkgs, tasks, k) ==
  IF tasks[k] = "ok" THEN OkResult ELSE ErrResult(pkgs, tasks, k)

\* Mutant: the results are scanned from the back.
RECURSIVE FirstErrorFromBack(_, _, _)
FirstErrorFromBack(pkgs, tasks, hs) ==
  IF hs = <<>> THEN OkResult
  ELSE IF TryResult(pkgs, tasks, hs[Len(hs)]).kind = "Err"
       THEN TryResult(pkgs, tasks, hs[Len(hs)])
       ELSE FirstErrorFromBack(pkgs, tasks, SubSeq(hs, 1, Len(hs) - 1))

\* Lines 96-100: `for result in results { result??; } Ok(())` over the results
\* of join_all, which are in the order of `handles`.
RECURSIVE FirstError(_, _, _)
FirstError(pkgs, tasks, hs) ==
  IF hs = <<>> THEN OkResult
  ELSE IF TryResult(pkgs, tasks, hs[1]).kind = "Err"
       THEN TryResult(pkgs, tasks, hs[1])
       ELSE FirstError(pkgs, tasks, Tail(hs))

NoCall == [made |-> FALSE]

(***************************************************************************)
(* cache_packages: actions                                                 *)
(***************************************************************************)
\* Lines 68-75: read the flag (fixed for the call), sort, allocate `handles`.
Start ==
  /\ pc = "start"
  /\ packages' = SortPackages(input, sync_download)
  /\ handles' = <<>>
  /\ idx' = 1
  /\ pc' = "loop"
  /\ UNCHANGED <<sync_download, oracle, input, task, calls, firstFail, result, prev>>

\* Mutant: the assertion is compiled out (as a debug_assert_eq! would be in a
\* release build).
SpawnTaskNoAssert ==
  /\ pc = "loop"
  /\ idx <= Len(packages)
  /\ task' = [task EXCEPT ![idx] = "spawned"]
  /\ IF AwaitsInLoop(sync_download)
     THEN pc' = "await" /\ UNCHANGED <<handles, idx>>
     ELSE /\ handles' = Append(handles, idx)
          /\ idx' = idx + 1
          /\ pc' = "loop"
  /\ UNCHANGED <<sync_download, oracle, input, packages, calls, firstFail, result, prev>>

\* Mutant: the assertion follows the spawn.
SpawnTaskAssertAfter ==
  /\ pc = "loop"
  /\ idx <= Len(packages)
  /\ task' = [task EXCEPT ![idx] = "spawned"]
  /\ IF packages[idx].copy_index # 0
     THEN /\ pc' = "panicked"
          /\ UNCHANGED <<handles, idx>>
     ELSE IF AwaitsInLoop(sync_download)
          THEN pc' = "await" /\ UNCHANGED <<handles, idx>>
          ELSE /\ handles' = Append(handles, idx)
               /\ idx' = idx + 1
               /\ pc' = "loop"
  /\ UNCHANGED <<sync_download, oracle, input, packages, calls, firstFail, result, prev>>

\* Lines 76-93, one iteration up to its suspension point: the assertion, the
\* spawn, and then either the start of `handle.await` or the push.
SpawnTask ==
  /\ pc = "loop"
  /\ idx <= Len(packages)
  /\ IF packages[idx].copy_index # 0
     THEN /\ pc' = "panicked"
          /\ UNCHANGED <<task, handles, idx>>
     ELSE /\ task' = [task EXCEPT ![idx] = "spawned"]
          /\ IF AwaitsInLoop(sync_download)
             THEN pc' = "await" /\ UNCHANGED <<handles, idx>>
             ELSE /\ handles' = Append(handles, idx)
                  /\ idx' = idx + 1
                  /\ pc' = "loop"
  /\ UNCHANGED <<sync_download, oracle, input, packages, calls, firstFail, result, prev>>

\* Mutant: the awaited handle's result is not examined in the loop
\* (`handle.await` without `??`); it is kept and surfaced after the loop.
AwaitHandleDeferError ==
  /\ pc = "await"
  /\ Finished(task[idx])
  /\ handles' = Append(handles, idx)
  /\ idx' = idx + 1
  /\ pc' = "loop"
  /\ UNCHANGED <<sync_download, oracle, input, packages, task, calls,
                 firstFail, result, prev>>

\* Mutant: the awaiter is woken only by a task that succeeded.
AwaitHandleOkOnly ==
  /\ pc = "await"
  /\ task[idx] = "ok"
  /\ idx' = idx + 1
  /\ pc' = "loop"
  /\ UNCHANGED <<sync_download, oracle, input, packages, handles, task, calls,
                 firstFail, result, prev>>

\* Line 90: `handle.await??` completes once the task has finished.
AwaitHandle ==
  /\ pc = "await"
  /\ Finished(task[idx])
  /\ IF TryResult(packages, task, idx).kind = "Ok"
     THEN /\ idx' = idx + 1
          /\ pc' = "loop"
          /\ UNCHANGED result
     ELSE /\ result' = TryResult(packages, task, idx)
          /\ pc' = "done"
          /\ UNCHANGED idx
  /\ UNCHANGED <<sync_download, oracle, input, packages, handles, task, calls,
                 firstFail, prev>>

\* Line 94-95: the loop is over; `join_all(handles).await` starts.
LoopExit ==
  /\ pc = "loop"
  /\ idx > Len(packages)
  /\ pc' = "join"
  /\ UNCHANGED <<sync_download, oracle, input, packages, idx, handles, task, calls,
                 firstFail, result, prev>>

\* Mutant: the join completes as soon as one handle has failed
\* (`try_join_all`), while other tasks are still in flight.
JoinAllEarly ==
  /\ pc = "join"
  /\ \/ \A i \in 1..Len(handles) : Finished(task[handles[i]])
     \/ \E i \in 1..Len(handles) : task[handles[i]] \in Failures
  /\ result' = IF \E i \in 1..Len(handles) : task[handles[i]] \in Failures
               THEN LET i == Min({j \in 1..Len(handles) : task[handles[j]] \in Failures})
                    IN  ErrResult(packages, task, handles[i])
               ELSE OkResult
  /\ pc' = "done"
  /\ UNCHANGED <<sync_download, oracle, input, packages, idx, handles, task, calls,
                 firstFail, prev>>

\* Lines 95-100: join_all completes when every handle has, then the results
\* are scanned in order.
JoinAll ==
  /\ pc = "join"
  /\ \A i \in 1..Len(handles) : Finished(task[handles[i]])
  /\ result' = FirstError(packages, task, handles)
  /\ pc' = "done"
  /\ UNCHANGED <<sync_download, oracle, input, packages, idx, handles, task, calls,
                 firstFail, prev>>

\* Lines 80-88: the scheduler polls a spawned task for the first time, which
\* invokes cache.ensure_package((name, version), dist, registry_url).
TaskStart(k) ==
  /\ task[k] = "spawned"
  /\ task' = [task EXCEPT ![k] = "running"]
  /\ calls' = Append(calls, packages[k].id)
  /\ UNCHANGED <<sync_download, oracle, input, packages, pc, idx, handles, firstFail,
                 result, prev>>

\* Lines 80-88: the task ends: ensure_package returned Ok or Err, or the task
\* panicked or was cancelled by the runtime (a JoinError).
TaskFinish(k) ==
  /\ task[k] = "running"
  /\ \E o \in oracle[packages[k].id] :
       /\ task' = [task EXCEPT ![k] = o]
       /\ firstFail' = IF o # "ok" /\ firstFail = 0 THEN k ELSE firstFail
  /\ UNCHANGED <<sync_download, oracle, input, packages, pc, idx, handles, calls,
                 result, prev>>

NoTasks == [k \in 1..MaxLen |-> None]

IsPermutation(s, t) ==
  /\ Len(s) = Len(t)
  /\ \A e \in ResolutionPackages :
       Cardinality({i \in 1..Len(s) : s[i] = e}) = Cardinality({i \in 1..Len(t) : t[i] = e})

\* Lines 63-67, the caller's side: a call has ended and the caller calls
\* cache_packages once more, with the same packages in another order.
CallAgain ==
  /\ pc \in {"done", "panicked"}
  /\ ~prev.made
  /\ prev' = [made |-> TRUE, input |-> input, pc |-> pc, calls |-> calls,
              result |-> result]
  /\ \E l \in [1..Len(input) -> ResolutionPackages] :
       /\ IsPermutation(l, input)
       /\ input' = l
       /\ packages' = l
  /\ pc' = "start"
  /\ idx' = 1
  /\ handles' = <<>>
  /\ task' = NoTasks
  /\ calls' = <<>>
  /\ firstFail' = 0
  /\ result' = None
  /\ UNCHANGED <<sync_download, oracle>>

(***************************************************************************)
(* Idle values of the other units' variables                               *)
(***************************************************************************)
PermIdle ==
  /\ fs = None /\ cwd = <<>> /\ registry_path = <<>> /\ path = <<>>
  /\ perm_result = None

TypesIdle == package_name = <<>> /\ types_result = None

(***************************************************************************)
(* Specification of one cache_packages call                                *)
(***************************************************************************)
InitCall(inputs) ==
  /\ input \in inputs
  /\ packages = input
  /\ pc = "start"
  /\ idx = 1
  /\ handles = <<>>
  /\ task = NoTasks
  /\ calls = <<>>
  /\ firstFail = 0
  /\ result = None
  /\ prev = NoCall

Init ==
  /\ sync_download \in BOOLEAN
  /\ oracle = [i \in PackageIds |-> Outcomes]
  /\ InitCall(SeqsUpTo(ResolutionPackages, MaxLen))
  /\ PermIdle /\ TypesIdle

Next ==
  \/ Start /\ UNCHANGED <<permVars, typesVars>>
  \/ SpawnTask /\ UNCHANGED <<permVars, typesVars>>
  \/ AwaitHandle /\ UNCHANGED <<permVars, typesVars>>
  \/ LoopExit /\ UNCHANGED <<permVars, typesVars>>
  \/ JoinAll /\ UNCHANGED <<permVars, typesVars>>
  \/ \E k \in 1..MaxLen : TaskStart(k) /\ UNCHANGED <<permVars, typesVars>>
  \/ \E k \in 1..MaxLen : TaskFinish(k) /\ UNCHANGED <<permVars, typesVars>>

Spec == Init /\ [][Next]_vars

(***************************************************************************)
(* Specification with a fair scheduler: the caller keeps polling the       *)
(* cache_packages future, so each of its steps is taken once it can be     *)
(* (lines 68-100); the tokio runtime polls every spawned task (line 80),   *)
(* and every ensure_package call that has started completes (lines 81-87). *)
(***************************************************************************)
Fairness ==
  /\ WF_vars(Start /\ UNCHANGED <<permVars, typesVars>>)
  /\ WF_vars(SpawnTask /\ UNCHANGED <<permVars, typesVars>>)
  /\ WF_vars(AwaitHandle /\ UNCHANGED <<permVars, typesVars>>)
  /\ WF_vars(LoopExit /\ UNCHANGED <<permVars, typesVars>>)
  /\ WF_vars(JoinAll /\ UNCHANGED <<permVars, typesVars>>)
  /\ \A k \in 1..MaxLen :
       /\ WF_vars(TaskStart(k) /\ UNCHANGED <<permVars, typesVars>>)
       /\ WF_vars(TaskFinish(k) /\ UNCHANGED <<permVars, typesVars>>)

SpecFair == Init /\ [][Next]_vars /\ Fairness

(***************************************************************************)
(* Specification of two serial calls on permuted lists: the caller calls   *)
(* cache_packages under the serial flag, and then again with the same      *)
(* legal packages in another order, against a cache whose outcome for each *)
(* package is fixed.                                                       *)
(***************************************************************************)
InitPair ==
  /\ sync_download = TRUE
  /\ oracle \in [PackageIds -> {{o} : o \in Outcomes}]
  /\ InitCall(SeqsUpTo(LegalPackages, MaxLen))
  /\ PermIdle /\ TypesIdle

NextPair ==
  \/ Next
  \/ CallAgain /\ UNCHANGED <<permVars, typesVars>>

SpecPair == InitPair /\ [][NextPair]_vars

(***************************************************************************)
(* Claims about cache_packages                                             *)
(***************************************************************************)
AllLegal(l) == \A i \in 1..Len(l) : l[i].copy_index = 0

Scheduled == {k \in 1..Len(packages) : task[k] # None}
Failed    == {k \in 1..Len(packages) : task[k] \in Failures}

Returned == pc = "done"

\* C1: on a list whose entries all have copy_index = 0, in both modes,
\* cache_packages does not panic, and when it returns it returns Ok exactly
\* when every ensure_package task it scheduled succeeded (and then it
\* scheduled one for every entry); if any of them failed it returns an error.
C1_OkIffEverySucceeded ==
  AllLegal(input) =>
    /\ pc # "panicked"
    /\ Returned =>
         /\ result.kind \in {"Ok", "Err"}
         /\ result.kind = "Ok" <=> (\A k \in Scheduled : task[k] = "ok")
         /\ result.kind = "Ok" => Scheduled = 1..Len(input)
         /\ Failed # {} => result.kind = "Err"

C1_Witness ==
  /\ AllLegal(input) /\ ~sync_download /\ Returned
  /\ result.kind = "Err"
  /\ \E j, k \in Scheduled : task[j] = "ok" /\ task[k] = "err"

IsSortedById(l) == \A i, j \in 1..Len(l) : i < j => ~IdLess(l[j].id, l[i].id)

\* The order in which the entries are processed: the PackageId-sorted list
\* under the serial flag, the caller's order otherwise.
InProcessingOrder ==
  IF sync_download
  THEN IsSortedById(packages) /\ IsPermutation(packages, input)
  ELSE packages = input

\* C3: the error cache_packages returns is that of the failing entry with
\* the lowest position in the processing order, whichever task failed first
\* in time.
C3_FirstErrorIsPositional ==
  (Returned /\ result.kind = "Err") =>
    /\ InProcessingOrder
    /\ Failed # {}
    /\ result.pos = Min(Failed)
    /\ result.id = packages[result.pos].id
    /\ result.cause = task[result.pos]

\* Three packages, the last fails first in time, the middle one fails later:
\* the middle one's failure is returned.
C3_Witness ==
  /\ Returned /\ ~sync_download /\ Len(input) = 3
  /\ task[1] = "ok" /\ task[2] = "err" /\ task[3] = "panic"
  /\ firstFail = 3
  /\ result.kind = "Err" /\ result.pos = 2

\* C4: under the serial flag at most one ensure_package task is in flight at
\* any time, and an entry's task is scheduled only when the task of every
\* earlier entry has run to completion.
C4_SerialOneInFlight ==
  sync_download =>
    /\ Cardinality({k \in 1..Len(packages) : InFlight(task[k])}) <= 1
    /\ \A k \in Scheduled : \A j \in 1..(k - 1) : Finished(task[j])

C4_Witness ==
  /\ sync_download /\ Len(input) = 3
  /\ Finished(task[1]) /\ Finished(task[2]) /\ InFlight(task[3])

CountIn(s, x) == Cardinality({i \in 1..Len(s) : s[i] = x})

\* C10: without the serial flag, a call that gets to await results has by
\* then scheduled exactly one task per entry (one handle per position, none
\* for the empty list, which returns Ok with no invocation); nothing is
\* awaited inside the loop; and when the call returns, also with an error,
\* ensure_package has been invoked once for every entry.
C10_ParallelSchedulesAll ==
  ~sync_download =>
    /\ pc # "await"
    /\ pc = "loop" => handles = [k \in 1..(idx - 1) |-> k]
    /\ pc \in {"join", "done"} =>
         /\ handles = [k \in 1..Len(input) |-> k]
         /\ Scheduled = 1..Len(input)
    /\ Returned =>
         /\ \A i \in PackageIds :
              CountIn(calls, i) = Cardinality({k \in 1..Len(input) : input[k].id = i})
         /\ input = <<>> => result.kind = "Ok" /\ calls = <<>>

C10_Witness ==
  /\ ~sync_download /\ Returned /\ Len(input) = 3
  /\ result.kind = "Err" /\ result.pos = 1 /\ firstFail = 1
  /\ Len(calls) = 3
  /\ task[2] = "ok" /\ task[3] = "ok"

IsPrefix(s, t) == Len(s) <= Len(t) /\ s = SubSeq(t, 1, Len(s))

Illegal == {k \in 1..Len(packages) : packages[k].copy_index # 0}

\* C11 as stated: a call on a list with a copy_index # 0 entry never returns
\* a normal Ok or Err.
C11_Original == ~AllLegal(input) => ~Returned

\* C11 as amended: a call on a list with a copy_index # 0 entry never
\* returns Ok; without the serial flag it never gets past the loop (it can
\* end only in the assertion failure); under the serial flag it can also
\* return the error of a task of an entry sorted before the first such entry.
\* The call panics only on the assertion.
C11_AssertionOrEarlierError ==
  /\ ~AllLegal(input) =>
       /\ ~sync_download => pc \notin {"join", "done"}
       /\ Returned =>
            /\ result.kind = "Err"
            /\ result.pos < Min(Illegal)
            /\ task[result.pos] \in Failures
  /\ pc = "panicked" => (idx \in Illegal /\ idx = Min(Illegal))

\* Under the serial flag, the first entry's task fails and its error is
\* returned although a later entry has copy_index # 0.
C11_Witness ==
  /\ sync_download /\ ~AllLegal(input) /\ Returned
  /\ result.kind = "Err" /\ result.pos = 1
  /\ packages[2].copy_index # 0

\* Outcomes of a task that are a JoinError: it panicked or was cancelled.
JoinErrors == {"panic", "cancelled"}

\* C12: a task that panics or is cancelled makes cache_packages return an
\* error, in both modes, under the same first-error rule as a cache failure
\* (the error returned is that of the lowest failing position, a JoinError
\* if that task's outcome is one); the call does not wait any further on such
\* a task, and it panics only on its own assertion.
C12_JoinErrorSurfaced ==
  /\ Returned =>
       /\ (\E k \in Scheduled : task[k] \in JoinErrors) => result.kind = "Err"
       /\ result.kind = "Err" =>
            /\ result.pos = Min(Failed)
            /\ result.cause = task[result.pos]
  /\ (pc = "await" /\ task[idx] \in JoinErrors) => ENABLED AwaitHandle
  /\ (pc = "join" /\ \A k \in Scheduled : Finished(task[k])) => ENABLED JoinAll
  /\ pc = "panicked" => packages[idx].copy_index # 0

\* The second task panics, the third is cancelled earlier in time: the call
\* returns the JoinError of the second.
C12_Witness ==
  /\ Returned /\ ~sync_download /\ AllLegal(input) /\ Len(input) = 3
  /\ task[1] = "ok" /\ task[2] = "panic" /\ task[3] = "cancelled"
  /\ firstFail = 3
  /\ result.kind = "Err" /\ result.pos = 2 /\ result.cause = "panic"

\* C15: under the serial flag a failing task ends the call at once: no task
\* is scheduled after it, the only step left is the return of its error, and
\* the packages for which ensure_package was invoked are exactly the sorted
\* entries up to and including the first failing one.
C15_SerialStopsAtFirstFailure ==
  sync_download =>
    /\ Len(calls) <= Len(packages)
    /\ \A i \in 1..Len(calls) : calls[i] = packages[i].id
    /\ \A k \in Failed :
         /\ Scheduled \subseteq 1..k
         /\ idx = k
         /\ pc \in {"await", "done"}
    /\ (Returned /\ result.kind = "Err") =>
         /\ Failed = {result.pos}
         /\ Len(calls) = result.pos
         /\ IsSortedById(packages)

\* Three packages given out of order, the second in sorted order fails: the
\* third is never scheduled.
C15_Witness ==
  /\ sync_download /\ Returned /\ Len(input) = 3
  /\ input # packages
  /\ result.kind = "Err" /\ result.pos = 2
  /\ task[1] = "ok" /\ task[3] = None
  /\ calls = <<packages[1].id, packages[2].id>>

\* C16: without the serial flag the call returns only after every scheduled
\* task has finished: at the return every entry has been scheduled and
\* invoked and none is still in flight, also when a failure came early.
C16_ParallelReturnsAfterAll ==
  /\ (~sync_download /\ Returned) =>
       /\ Scheduled = 1..Len(packages)
       /\ \A k \in Scheduled : Finished(task[k])
       /\ Len(calls) = Len(packages)
  /\ (~sync_download /\ pc = "join" /\ \E k \in Scheduled : InFlight(task[k]))
       => ~ENABLED JoinAll

\* The first entry failed before any other task had finished; the call still
\* returned only after the other two had.
C16_Witness ==
  /\ ~sync_download /\ Returned /\ Len(input) = 3
  /\ firstFail = 1 /\ task[1] = "cancelled"
  /\ task[2] = "ok" /\ task[3] = "err"
  /\ result.kind = "Err" /\ result.pos = 1 /\ result.cause = "cancelled"

\* C17: on a finite list of copy_index = 0 entries, when every ensure_package
\* call completes and the scheduler is fair, cache_packages eventually
\* returns, in both modes.
C17_Terminates == (pc = "start" /\ AllLegal(input)) ~> Returned

\* A call on three legal entries that has returned Ok after all three tasks
\* ran, in either mode.
C17_Witness ==
  /\ AllLegal(input) /\ Len(input) = 3 /\ Returned
  /\ result.kind = "Ok"
  /\ Len(calls) = 3
  /\ \A k \in 1..3 : task[k] = "ok"

\* C13 as stated: if any entry has copy_index # 0, ensure_package is invoked
\* for no entry at all.
C13_Original == ~AllLegal(input) => calls = <<>>

\* C13 as amended: the assertion of an entry is established before that
\* entry's task is scheduled, entry by entry: no task is scheduled for an
\* entry with copy_index # 0 nor for any entry after the first such entry
\* in the processing order, while the entries before it are scheduled, and
\* ensure_package may be invoked for them, before the assertion fails.
C13_AssertedBeforeOwnSpawn ==
  /\ \A k \in Scheduled : \A j \in 1..k : packages[j].copy_index = 0
  /\ \A i \in 1..Len(calls) : \E k \in Scheduled : packages[k].id = calls[i]
  /\ pc = "panicked" => Scheduled = 1..(Min(Illegal) - 1)

\* Two entries were scheduled and invoked before the third one's assertion
\* failed.
C13_Witness ==
  /\ pc = "panicked" /\ ~sync_download
  /\ Len(input) = 3 /\ Illegal = {3}
  /\ Len(calls) = 2

(***************************************************************************)
(* ensure_registry_read_permission: paths and the filesystem               *)
(*                                                                         *)
(* A path is its text, a sequence of characters.  std::path parses it into *)
(* components; std::fs::canonicalize resolves it against the filesystem.   *)
(***************************************************************************)
MaxSegs == 3   \* most '/'-separated segments of a target path
MaxHops == 4   \* symbolic links followed before canonicalize gives up

RECURSIVE Split(_)
\* text.split('/'): the segments between the separators, empty ones included.
Split(t) ==
  IF t = <<>> THEN << <<>> >>
  ELSE LET r == Split(Tail(t))
       IN  IF Head(t) = "/" THEN << <<>> >> \o r
           ELSE << <<Head(t)>> \o Head(r) >> \o Tail(r)

HasRoot(t) == t # <<>> /\ t[1] = "/"

Dot    == <<".">>
DotDot == <<".", ".">>

RootDir      == [kind |-> "RootDir"]
CurDir       == [kind |-> "CurDir"]
ParentDir    == [kind |-> "ParentDir"]
Normal(name) == [kind |-> "Normal", name |-> name]

RECURSIVE SegComponents(_)
\* The components of the segments after the front of the path: empty
\* segments (repeated or trailing separators) and `.` are normalized away.
SegComponents(segs) ==
  IF segs = <<>> THEN <<>>
  ELSE LET s == Head(segs)
       IN  (IF s = <<>> \/ s = Dot THEN <<>>
            ELSE IF s = DotDot THEN <<ParentDir>>
            ELSE <<Normal(s)>>) \o SegComponents(Tail(segs))

\* Path::components(): RootDir for a leading separator, CurDir for a leading
\* `.` of a relative path, then the remaining segments.
Components(t) ==
  LET segs == Split(t)
  IN  IF HasRoot(t) THEN <<RootDir>> \o SegComponents(Tail(segs))
      ELSE IF Head(segs) = Dot THEN <<CurDir>> \o SegComponents(Tail(segs))
      ELSE SegComponents(segs)

\* Path::starts_with(base): base's components are a prefix of the path's.
StartsWith(t, base) ==
  LET p == Components(t)
      b == Components(base)
  IN  Len(b) <= Len(p) /\ SubSeq(p, 1, Len(b)) = b

\* Line 109-111: components().all(|c| !matches!(c, Component::ParentDir))
NoParentDir(t) ==
  LET c == Components(t) IN \A i \in 1..Len(c) : c[i] # ParentDir

\* The filesystem: directory entries by canonical location (a sequence of
\* names under `/`), each a directory, a regular file or a symbolic link.
Absent       == [type |-> "absent"]
Directory    == [type |-> "dir"]
RegularFile  == [type |-> "file"]
Link(target) == [type |-> "link", target |-> target]

Lookup(fsys, node) ==
  IF node = <<>> THEN Directory
  ELSE IF node \in DOMAIN fsys THEN fsys[node] ELSE Absent

Parent(node) == IF node = <<>> THEN <<>> ELSE SubSeq(node, 1, Len(node) - 1)

CanonOk(node) == [ok |-> TRUE, node |-> node]
CanonErr(kind) == [ok |-> FALSE, kind |-> kind]

RECURSIVE Walk(_, _, _, _)
\* realpath: resolve the pending segments one by one from directory cur.
Walk(fsys, cur, segs, hops) ==
  IF segs = <<>> THEN CanonOk(cur)
  ELSE LET s    == Head(segs)
           rest == Tail(segs)
           node == Append(cur, s)
           k    == Lookup(fsys, node)
       IN  IF s = <<>> \/ s = Dot THEN Walk(fsys, cur, rest, hops)
           ELSE IF s = DotDot THEN Walk(fsys, Parent(cur), rest, hops)
           ELSE IF k = Absent THEN CanonErr("NotFound")
           ELSE IF k = Directory THEN Walk(fsys, node, rest, hops)
           ELSE IF k = RegularFile
                THEN IF rest = <<>> THEN CanonOk(node) ELSE CanonErr("NotADirectory")
           ELSE IF hops >= MaxHops THEN CanonErr("FilesystemLoop")
           ELSE Walk(fsys, IF HasRoot(k.target) THEN <<>> ELSE cur,
                     Split(k.target) \o rest, hops + 1)

\* std::fs::canonicalize(path) with working directory dir: the canonical
\* location, or the io::Error's kind.
Canonicalize(fsys, dir, t) ==
  IF t = <<>> THEN CanonErr("NotFound")
  ELSE Walk(fsys, IF HasRoot(t) THEN <<>> ELSE dir, Split(t), 0)

RECURSIVE NodeText(_)
\* The text of a canonical PathBuf: absolute, one separator before each name.
NodeText(node) ==
  IF node = <<>> THEN <<>> ELSE NodeText(Parent(node)) \o <<"/">> \o node[Len(node)]

CanonText(node) == IF node = <<>> THEN <<"/">> ELSE NodeText(node)

(***************************************************************************)
(* ensure_registry_read_permission                                         *)
(***************************************************************************)
\* Mutant: the `..` test is left out.
LexicalOkPrefixOnly(reg, t) == StartsWith(t, reg)

\* Mutant: the prefix test compares the texts (`str::starts_with`), not the
\* components.
LexicalOkTextual(reg, t) ==
  /\ Len(reg) <= Len(t) /\ SubSeq(t, 1, Len(reg)) = reg
  /\ NoParentDir(t)

\* Lines 108-111.
LexicalOk(reg, t) == StartsWith(t, reg) /\ NoParentDir(t)

\* Mutant: a target that cannot be found is not let through.
CanonicalOkStrict(fsys, dir, reg, t) ==
  LET r == Canonicalize(fsys, dir, reg)
      c == Canonicalize(fsys, dir, t)
  IN  r.ok /\ c.ok /\ StartsWith(CanonText(c.node), CanonText(r.node))

\* Mutant: any target that canonicalizes is let through.
CanonicalOkAnywhere(fsys, dir, reg, t) ==
  LET r == Canonicalize(fsys, dir, reg)
      c == Canonicalize(fsys, dir, t)
  IN  r.ok /\ (c.ok \/ c.kind = "NotFound")

\* Mutant: a registry root that does not canonicalize is skipped, and a target
\* that is not found is still let through.
CanonicalOkRootless(fsys, dir, reg, t) ==
  LET r == Canonicalize(fsys, dir, reg)
      c == Canonicalize(fsys, dir, t)
  IN  IF c.ok THEN r.ok /\ StartsWith(CanonText(c.node), CanonText(r.node))
      ELSE c.kind = "NotFound"

\* Lines 114-124: the registry root canonicalizes, and the target either
\* canonicalizes to a path that starts with the canonical root or is not found.
CanonicalOk(fsys, dir, reg, t) ==
  LET r == Canonicalize(fsys, dir, reg)
      c == Canonicalize(fsys, dir, t)
  IN  /\ r.ok
      /\ IF c.ok THEN StartsWith(CanonText(c.node), CanonText(r.node))
         ELSE c.kind = "NotFound"

StrReading    == <<"R", "e", "a", "d", "i", "n", "g", " ">>
StrNotAllowed == <<" ", "i", "s", " ", "n", "o", "t", " ", "a", "l", "l", "o", "w", "e", "d">>

\* Mutant: the message does not name the path.
PermissionDeniedNoPath(t) ==
  [kind |-> "Err", class |-> "PermissionDenied", message |-> StrReading \o StrNotAllowed]

\* Lines 127-130: custom_error("PermissionDenied",
\*   format!("Reading {} is not allowed", path.display())).
PermissionDenied(t) ==
  [kind |-> "Err", class |-> "PermissionDenied",
   message |-> StrReading \o t \o StrNotAllowed]

NotChecked == [kind |-> "NotChecked"]

\* Lines 103-131.
ensure_registry_read_permission(fsys, dir, reg, t) ==
  IF LexicalOk(reg, t) /\ CanonicalOk(fsys, dir, reg, t)
  THEN OkResult
  ELSE PermissionDenied(t)

(***************************************************************************)
(* Inputs of the permission check                                          *)
(***************************************************************************)
NameA == <<"a">>
NameB == <<"b">>
Segments == {<<>>, Dot, DotDot, NameA, NameB, <<"a", "b">>}

RECURSIVE JoinSegs(_)
JoinSegs(segs) ==
  IF segs = <<>> THEN <<>>
  ELSE IF Len(segs) = 1 THEN segs[1]
  ELSE segs[1] \o <<"/">> \o JoinSegs(Tail(segs))

\* Target paths: absolute and relative texts of up to MaxSegs segments.
TargetPaths ==
  {JoinSegs(segs) : segs \in SeqsUpTo(Segments, MaxSegs)}
    \cup {<<"/">> \o JoinSegs(segs) : segs \in SeqsUpTo(Segments, MaxSegs)}

\* Registry roots: `/a`, `/b/` and the relative `a`.
RegistryRoots == {<<"/", "a">>, <<"/", "b", "/">>, NameA}

FsNodes == {<<NameA>>, <<NameB>>, <<NameA, NameA>>, <<NameA, NameB>>, <<NameB, NameA>>}

\* What each entry may be: `/a` a directory, missing or a link to `/b`;
\* `/a/a` a file or a link that leaves `/a` (`/b`, `/b/a`), stays in it (`b`)
\* or points at itself (`a`).
FsKinds(node) ==
  CASE node = <<NameA>> -> {Directory, Absent, Link(<<"/", "b">>)}
    [] node = <<NameB>> -> {Directory, RegularFile}
    [] node = <<NameA, NameA>> ->
         {Absent, RegularFile, Link(<<"/", "b">>), Link(<<"/", "b", "/", "a">>),
          Link(NameB), Link(NameA)}
    [] node = <<NameA, NameB>> -> {Absent, Directory, RegularFile}
    [] node = <<NameB, NameA>> -> {Absent, RegularFile}

\* Entries exist only in directories.
FileSystems ==
  {f \in [FsNodes -> UNION {FsKinds(n) : n \in FsNodes}] :
     /\ \A n \in FsNodes : f[n] \in FsKinds(n)
     /\ \A n \in FsNodes : (Len(n) = 2 /\ f[n] # Absent) => f[Parent(n)] = Directory}

CacheIdle ==
  /\ sync_download = FALSE /\ oracle = None /\ input = <<>> /\ packages = <<>>
  /\ pc = "idle" /\ idx = 1 /\ handles = <<>> /\ task = NoTasks /\ calls = <<>>
  /\ firstFail = 0 /\ result = None /\ prev = NoCall

InitPerm ==
  /\ fs \in FileSystems
  /\ cwd = <<>>
  /\ registry_path \in RegistryRoots
  /\ path = <<>>
  /\ perm_result = NotChecked
  /\ CacheIdle /\ TypesIdle

\* The caller checks a path against the registry root (one call).
CheckPermission ==
  /\ perm_result = NotChecked
  /\ \E t \in TargetPaths :
       /\ path' = t
       /\ perm_result' = ensure_registry_read_permission(fs, cwd, registry_path, t)
  /\ UNCHANGED <<fs, cwd, registry_path>>

NextPerm == CheckPermission /\ UNCHANGED <<cacheVars, typesVars>>

SpecPerm == InitPerm /\ [][NextPerm]_vars

(***************************************************************************)
(* Claims about ensure_registry_read_permission                            *)
(***************************************************************************)
Checked  == perm_result # NotChecked
Accepted == perm_result.kind = "Ok"
Rejected == perm_result.kind = "Err"

\* The text has a `..` between separators (or the ends of the text).
HasDotDotText(t) ==
  \E i \in 1..(Len(t) - 1) :
    /\ t[i] = "." /\ t[i + 1] = "."
    /\ i = 1 \/ t[i - 1] = "/"
    /\ i + 1 = Len(t) \/ t[i + 2] = "/"

\* The text is the root's text, or the root's text followed by a separator
\* and more.
TextUnder(t, reg) ==
  \/ t = reg
  \/ /\ Len(t) > Len(reg)
     /\ SubSeq(t, 1, Len(reg)) = reg
     /\ reg[Len(reg)] = "/" \/ t[Len(reg) + 1] = "/"

CanonRoot   == Canonicalize(fs, cwd, registry_path)
CanonTarget == Canonicalize(fs, cwd, path)

\* The canonical target is the canonical root or a location below it.
UnderCanonRoot ==
  /\ CanonRoot.ok /\ CanonTarget.ok
  /\ IsPrefix(CanonRoot.node, CanonTarget.node)

TargetNotFound == ~CanonTarget.ok /\ CanonTarget.kind = "NotFound"

\* C5: every target path with a `..` component is rejected with the
\* PermissionDenied error, whatever the filesystem holds.
C5_RejectsParentDir ==
  (Checked /\ HasDotDotText(path)) =>
    Rejected /\ perm_result.class = "PermissionDenied"

\* A `..` path under the root that canonicalizes to a location inside the
\* canonical root, and is rejected all the same.
C5_Witness ==
  /\ Checked /\ HasDotDotText(path)
  /\ TextUnder(path, registry_path)
  /\ UnderCanonRoot
  /\ Rejected

\* C6 as stated: any target textually equal to or under the registry root,
\* with no `..` component, that exists under the canonical root or does not
\* exist at all, is accepted.
C6_Original ==
  (/\ Checked
   /\ TextUnder(path, registry_path)
   /\ ~HasDotDotText(path)
   /\ UnderCanonRoot \/ TargetNotFound)
    => Accepted

\* C6 as amended: ... is accepted provided the registry root itself can be
\* canonicalized.
C6_AcceptsUnderRoot ==
  (/\ Checked
   /\ TextUnder(path, registry_path)
   /\ ~HasDotDotText(path)
   /\ CanonRoot.ok
   /\ UnderCanonRoot \/ TargetNotFound)
    => Accepted

\* A missing file under an existing registry root is accepted.
C6_Witness ==
  /\ Checked
  /\ TextUnder(path, registry_path) /\ path # registry_path
  /\ ~HasDotDotText(path)
  /\ CanonRoot.ok /\ TargetNotFound
  /\ Accepted

\* C7: whenever the check accepts, the canonical target lies under the
\* canonical registry root or canonicalizing the target failed with NotFound;
\* so a path under the root that resolves, through a symbolic link, to an
\* existing location outside the canonical root is rejected.
C7_ConfinedToCanonicalRoot ==
  /\ Accepted => (UnderCanonRoot \/ (CanonRoot.ok /\ TargetNotFound))
  /\ (Checked /\ CanonTarget.ok /\ ~UnderCanonRoot) => Rejected

\* `/a/a` is a link inside the registry root `/a` to the existing `/b`.
C7_Witness ==
  /\ Checked
  /\ registry_path = <<"/", "a">>
  /\ path = <<"/", "a", "/", "a">>
  /\ fs[<<NameA>>] = Directory
  /\ fs[<<NameA, NameA>>] = Link(<<"/", "b">>)
  /\ CanonTarget.ok /\ CanonTarget.node = <<NameB>>
  /\ Rejected

\* C14: when the registry root cannot be canonicalized, every target path is
\* rejected, a non-existent target lexically under the root and free of `..`
\* included.
C14_RootMustCanonicalize ==
  (Checked /\ ~CanonRoot.ok) => Rejected

\* The root does not exist; the target is textually under it, has no `..`
\* and does not exist either.
C14_Witness ==
  /\ Checked /\ ~CanonRoot.ok
  /\ TextUnder(path, registry_path) /\ path # registry_path
  /\ ~HasDotDotText(path)
  /\ LexicalOk(registry_path, path)
  /\ TargetNotFound
  /\ Rejected

\* The text begins with the root's text and goes on within the same name:
\* a sibling of the root whose name the root's name is a prefix of.
TextualSibling(t, reg) ==
  /\ Len(t) > Len(reg)
  /\ SubSeq(t, 1, Len(reg)) = reg
  /\ reg[Len(reg)] # "/" /\ t[Len(reg) + 1] # "/"

\* C18: the lexical prefix test is by whole components, not by text: a target
\* whose components do not begin with the components of the root (a sibling
\* whose name merely begins with the root's name, or a path elsewhere) is
\* rejected whatever the filesystem holds.
C18_ComponentWisePrefix ==
  Checked =>
    /\ TextualSibling(path, registry_path) => Rejected
    /\ ~IsPrefix(Components(registry_path), Components(path)) => Rejected

\* Root `/a`, target `/ab/a`: the root canonicalizes and the target is not
\* found, which the filesystem test alone would let through.
C18_Witness ==
  /\ Checked
  /\ registry_path = <<"/", "a">>
  /\ path = <<"/", "a", "b", "/", "a">>
  /\ TextualSibling(path, registry_path)
  /\ CanonRoot.ok /\ TargetNotFound
  /\ Rejected

\* C8: every rejection is the error tagged PermissionDenied whose message is
\* `Reading <path> is not allowed` with the path as the caller passed it.
C8_ErrorShape ==
  Rejected =>
    /\ perm_result.class = "PermissionDenied"
    /\ perm_result.message = StrReading \o path \o StrNotAllowed

\* A rejection on the canonical branch, where the canonical path is another
\* text than the one passed.
C8_Witness ==
  /\ Checked /\ Rejected
  /\ LexicalOk(registry_path, path)
  /\ CanonRoot.ok /\ CanonTarget.ok
  /\ CanonText(CanonTarget.node) # path
  /\ perm_result.message = StrReading \o path \o StrNotAllowed

(***************************************************************************)
(* types_package_name                                                      *)
(*                                                                         *)
(* A package name is its text, a sequence of characters.                   *)
(***************************************************************************)
MaxNameLen == 4   \* longest generated package name

TypesPrefix == <<"@", "t", "y", "p", "e", "s", "/">>

StartsWithStr(t, prefix) ==
  Len(prefix) <= Len(t) /\ SubSeq(t, 1, Len(prefix)) = prefix

RECURSIVE ReplaceFirstSlash(_)
\* Mutant: replacen('/', "__", 1).
ReplaceFirstSlash(t) ==
  IF t = <<>> THEN <<>>
  ELSE IF Head(t) = "/" THEN <<"_", "_">> \o Tail(t)
  ELSE <<Head(t)>> \o ReplaceFirstSlash(Tail(t))

RECURSIVE ReplaceSlashes(_)
\* Line 138: package_name.replace('/', "__").
ReplaceSlashes(t) ==
  IF t = <<>> THEN <<>>
  ELSE (IF Head(t) = "/" THEN <<"_", "_">> ELSE <<Head(t)>>) \o ReplaceSlashes(Tail(t))

\* Line 138: format!("@types/{}", ...).
FormatTypes(t) == TypesPrefix \o t

\* Lines 134-139.  The debug_assert! of line 135 panics in a build with debug
\* assertions and is compiled out otherwise.
types_package_name(name, debug_assertions) ==
  IF debug_assertions /\ StartsWithStr(name, TypesPrefix)
  THEN [kind |-> "Panic"]
  ELSE [kind |-> "Ok", value |-> FormatTypes(ReplaceSlashes(name))]

NameChars == {"@", "/", "_", "a"}

StrName          == <<"n", "a", "m", "e">>
StrScopedPackage == <<"@", "s", "c", "o", "p", "e", "d", "/", "p", "a", "c", "k", "a", "g", "e">>
StrABC           == <<"@", "a", "/", "b", "/", "c">>

\* Package names: every text of up to MaxNameLen characters, the names of the
\* test and of the documentation, and names that already carry the prefix.
PackageNameTexts ==
  SeqsUpTo(NameChars, MaxNameLen)
    \cup {StrName, StrScopedPackage, StrABC}
    \cup {TypesPrefix \o t : t \in SeqsUpTo(NameChars, 1)}

NotCalled == [kind |-> "NotCalled"]

InitTypes ==
  /\ package_name \in PackageNameTexts
  /\ types_result = NotCalled
  /\ CacheIdle /\ PermIdle

\* The caller asks for the @types name of the package (one call).
TypesPackageName ==
  /\ types_result = NotCalled
  /\ \E debug_assertions \in BOOLEAN :
       types_result' = types_package_name(package_name, debug_assertions)
  /\ UNCHANGED package_name

NextTypes == TypesPackageName /\ UNCHANGED <<cacheVars, permVars>>

SpecTypes == InitTypes /\ [][NextTypes]_vars

(***************************************************************************)
(* Claims about types_package_name                                         *)
(***************************************************************************)
SlashesBefore(t, i) == Cardinality({j \in 1..(i - 1) : t[j] = "/"})

\* C9: for a name N that does not begin with `@types/` the result is
\* `@types/` followed by N with every `/` replaced by `__`: it begins with the
\* prefix, has no `/` after it, every character of N other than `/` is kept
\* in place and every `/` has become two underscores; `name`,
\* `@scoped/package` and `@a/b/c` map as documented.
C9_TypesName ==
  (types_result # NotCalled /\ ~StartsWithStr(package_name, TypesPrefix)) =>
    /\ types_result.kind = "Ok"
    /\ LET n == package_name
           v == types_result.value
           at(i) == Len(TypesPrefix) + i + SlashesBefore(n, i)
       IN  /\ Len(v) = Len(TypesPrefix) + Len(n) + SlashesBefore(n, Len(n) + 1)
           /\ SubSeq(v, 1, Len(TypesPrefix)) = TypesPrefix
           /\ \A i \in (Len(TypesPrefix) + 1)..Len(v) : v[i] # "/"
           /\ \A i \in 1..Len(n) :
                IF n[i] = "/" THEN v[at(i)] = "_" /\ v[at(i) + 1] = "_"
                ELSE v[at(i)] = n[i]
           /\ n = StrName => v = <<"@", "t", "y", "p", "e", "s", "/", "n", "a", "m", "e">>
           /\ n = StrScopedPackage => v = <<"@", "t", "y", "p", "e", "s", "/", "@", "s", "c", "o", "p", "e", "d", "_", "_", "p", "a", "c", "k", "a", "g", "e">>
           /\ n = StrABC => v = <<"@", "t", "y", "p", "e", "s", "/", "@", "a", "_", "_", "b", "_", "_", "c">>

C9_Witness ==
  /\ package_name = StrABC
  /\ types_result = [kind |-> "Ok", value |-> <<"@", "t", "y", "p", "e", "s", "/", "@", "a", "_", "_", "b", "_", "_", "c">>]

====
